---- MODULE Spec2Model ----
(***************************************************************************)
(* ImportParser.parseProducts (server/src/data-import/providers/           *)
(* import-parser/import-parser.ts): a CSV text, given as a string or as a  *)
(* stream, is decoded into rows by csv-parse and grouped into products     *)
(* with variants by processRawRecords.                                     *)
(*                                                                         *)
(* A JavaScript string is a sequence of one-character strings, so that     *)
(* trim, split and the truthiness of a cell are computed on characters.    *)
(* The error messages the code builds from literals and numbers are TLA+   *)
(* strings.  An optional value (string | undefined, an optional object)    *)
(* is a sequence of length 0 or 1, except for a cell read from a record,   *)
(* where undefined is the value of that name below.                        *)
(***************************************************************************)
EXTENDS Integers, Sequences, FiniteSets, TLC

\* ------------------------------------------------------------ JS values

\* The value undefined: distinct from every string, whose elements are
\* single characters.
undefined == <<"undefined">>

\* The string a JS string is printed as inside a message.
RECURSIVE Str(_)
Str(s) == IF s = <<>> THEN "" ELSE Head(s) \o Str(Tail(s))

Range(s) == {s[i] : i \in DOMAIN s}

\* String.prototype.trim's notion of white space, on the alphabet of the cells.
IsSpace(c) == c \in {" ", "\t"}

RECURSIVE TrimLeft(_)
TrimLeft(s) == IF s # <<>> /\ IsSpace(Head(s)) THEN TrimLeft(Tail(s)) ELSE s

RECURSIVE TrimRight(_)
TrimRight(s) ==
    IF s # <<>> /\ IsSpace(s[Len(s)]) THEN TrimRight(SubSeq(s, 1, Len(s) - 1)) ELSE s

Trim(s) == TrimRight(TrimLeft(s))

\* String.prototype.split(separator): the pieces between the separators; the
\* empty string splits into one empty piece.
RECURSIVE Split(_, _)
Split(s, sep) ==
    IF \E i \in DOMAIN s : s[i] = sep
    THEN LET i == CHOOSE j \in DOMAIN s : s[j] = sep /\ \A k \in 1..(j - 1) : s[k] # sep
         IN <<SubSeq(s, 1, i - 1)>> \o Split(SubSeq(s, i + 1, Len(s)), sep)
    ELSE <<s>>

\* input || '' for a string or undefined.
OrEmpty(input) == IF input = undefined THEN <<>> ELSE input

\* The truthiness of a string or undefined.
Truthy(input) == input # undefined /\ input # <<>>

\* A number: the value of unary plus on a string.
NaN == [isNaN |-> TRUE, n |-> 0]
Num(k) == [isNaN |-> FALSE, n |-> k]

DigitValue(c) ==
    CASE c = "0" -> 0 [] c = "1" -> 1 [] c = "2" -> 2 [] c = "3" -> 3 [] c = "4" -> 4
      [] c = "5" -> 5 [] c = "6" -> 6 [] c = "7" -> 7 [] c = "8" -> 8 [] c = "9" -> 9

IsDigit(c) == c \in {"0", "1", "2", "3", "4", "5", "6", "7", "8", "9"}

RECURSIVE DecimalValue(_)
DecimalValue(s) ==
    IF s = <<>> THEN 0 ELSE 10 * DecimalValue(SubSeq(s, 1, Len(s) - 1)) + DigitValue(s[Len(s)])

\* +s on the alphabet of the cells: the empty string is 0, a string of
\* decimal digits is its value, any other string of that alphabet is NaN.
ToNumber(s) ==
    IF \A i \in DOMAIN s : IsDigit(s[i]) THEN Num(DecimalValue(s)) ELSE NaN

\* ------------------------------------------------------------ field parsers

\* F of the value of e, with e evaluated once.
Once(e, F(_)) == CHOOSE out \in {F(v) : v \in {e}} : TRUE

parseString(input) == Once(OrEmpty(input), Trim)

parseNumber(input) == Once(OrEmpty(input), LAMBDA s : ToNumber(Trim(s)))

parseStringArray(input) ==
    Once(OrEmpty(input),
         LAMBDA s : LET pieces == Split(Trim(s), ",")
                        trimmed == [i \in DOMAIN pieces |-> Trim(pieces[i])]
                    IN SelectSeq(trimmed, LAMBDA piece : piece # <<>>))

\* ------------------------------------------------------------ records

Name == <<"n", "a", "m", "e">>
Slug == <<"s", "l", "u", "g">>
Description == <<"d", "e", "s", "c", "r", "i", "p", "t", "i", "o", "n">>
Assets == <<"a", "s", "s", "e", "t", "s">>
OptionGroups == <<"o", "p", "t", "i", "o", "n", "G", "r", "o", "u", "p", "s">>
OptionValues == <<"o", "p", "t", "i", "o", "n", "V", "a", "l", "u", "e", "s">>
Sku == <<"s", "k", "u">>
Price == <<"p", "r", "i", "c", "e">>
TaxCategory == <<"t", "a", "x", "C", "a", "t", "e", "g", "o", "r", "y">>
VariantAssets == <<"v", "a", "r", "i", "a", "n", "t", "A", "s", "s", "e", "t", "s">>

requiredColumns ==
    <<Name, Slug, Description, Assets, OptionGroups, OptionValues, Sku, Price,
      TaxCategory, VariantAssets>>

\* missing.map(m => `"${m}"`).join(', ')
RECURSIVE JoinQuoted(_)
JoinQuoted(cols) ==
    IF cols = <<>> THEN ""
    ELSE "\"" \o Str(Head(cols)) \o "\""
         \o (IF Len(cols) > 1 THEN ", " ELSE "") \o JoinQuoted(Tail(cols))

\* A variant of validateRequiredColumns that reports the first missing column only.
validateRequiredColumns_FirstOnly(r) ==
    IF r = <<>> THEN [threw |-> TRUE, error |-> <<>>]
    ELSE LET missing == SelectSeq(requiredColumns, LAMBDA col : col \notin Range(r[1]))
         IN [threw |-> FALSE,
             error |-> IF missing # <<>>
                       THEN <<"The import file is missing the following columns: "
                              \o JoinQuoted(<<Head(missing)>>)>>
                       ELSE <<>>]

\* r is the header row, if any (<<>> or <<row>>): r.includes of undefined throws
\* a TypeError; otherwise the message, if any.
validateRequiredColumns(r) ==
    IF r = <<>> THEN [threw |-> TRUE, error |-> <<>>]
    ELSE LET missing == SelectSeq(requiredColumns, LAMBDA col : col \notin Range(r[1]))
         IN [threw |-> FALSE,
             error |-> IF missing # <<>>
                       THEN <<"The import file is missing the following columns: "
                              \o JoinQuoted(missing)>>
                       ELSE <<>>]

\* A variant of validateColumnCount that accepts a row longer than the header.
validateColumnCount_ShortOnly(columns, row) ==
    IF Len(columns) > Len(row)
    THEN <<"Invalid Record Length: header length is " \o ToString(Len(columns))
           \o ", got " \o ToString(Len(row))>>
    ELSE <<>>

validateColumnCount(columns, row) ==
    IF Len(columns) # Len(row)
    THEN <<"Invalid Record Length: header length is " \o ToString(Len(columns))
           \o ", got " \o ToString(Len(row))>>
    ELSE <<>>

\* The property key a column index gives: columns[i], or "undefined" past the
\* header's end.
ColumnKey(columns, i) ==
    IF i \in DOMAIN columns THEN columns[i]
    ELSE <<"u", "n", "d", "e", "f", "i", "n", "e", "d">>

\* row.reduce((obj, val, i) => ({ ...obj, [columns[i]]: val }), {}): the object
\* is a function from its property names to their values, and a name given to
\* two cells keeps the later one.
mapRowToObjectOver(columns, row) ==
    [key \in {ColumnKey(columns, i) : i \in DOMAIN row} |->
        row[CHOOSE i \in DOMAIN row :
                /\ ColumnKey(columns, i) = key
                /\ \A k \in (i + 1)..Len(row) : ColumnKey(columns, k) # key]]

\* A variant of mapRowToObject that names the cells by their position in
\* requiredColumns, whatever the header.
mapRowToObject_ByPosition(columns, row) == mapRowToObjectOver(requiredColumns, row)

mapRowToObject(columns, row) == mapRowToObjectOver(columns, row)

\* r.<key>
Field(r, key) == IF key \in DOMAIN r THEN r[key] ELSE undefined

\* shared/normalize-string on the alphabet of the cells: lower case, the
\* punctuation removed, each run of white space replaced by the separator.
LowerCase(c) ==
    CASE c = "A" -> "a" [] c = "B" -> "b" [] c = "C" -> "c" [] OTHER -> c

RECURSIVE normalizeString(_, _)
normalizeString(input, spaceReplacer) ==
    IF input = <<>> THEN <<>>
    ELSE LET c == Head(input)
             rest == Tail(input)
         IN IF c = "," THEN normalizeString(rest, spaceReplacer)
            ELSE IF IsSpace(c)
                 THEN <<spaceReplacer>> \o normalizeString(TrimLeft(rest), spaceReplacer)
                 ELSE <<LowerCase(c)>> \o normalizeString(rest, spaceReplacer)

parseProductFromRecord(r) ==
    LET name == parseString(Field(r, Name))
        given == parseString(Field(r, Slug))
        groups == parseStringArray(Field(r, OptionGroups))
    IN [name |-> name,
        slug |-> IF given # <<>> THEN given ELSE normalizeString(name, "-"),
        description |-> parseString(Field(r, Description)),
        assetPaths |-> parseStringArray(Field(r, Assets)),
        optionGroups |-> [i \in DOMAIN groups |-> [name |-> groups[i], values |-> <<>>]]]

parseVariantFromRecord(r) ==
    [optionValues |-> parseStringArray(Field(r, OptionValues)),
     sku |-> parseString(Field(r, Sku)),
     price |-> parseNumber(Field(r, Price)),
     taxCategory |-> parseString(Field(r, TaxCategory)),
     assetPaths |-> parseStringArray(Field(r, VariantAssets))]

\* v[i] of an array: undefined past its end.
At(v, i) == IF i \in DOMAIN v THEN v[i] ELSE undefined

\* Array.from(new Set(s)): each value once, in the order of first insertion.
RECURSIVE UniqueFrom(_, _)
UniqueFrom(s, seen) ==
    IF s = <<>> THEN seen
    ELSE UniqueFrom(Tail(s), IF Head(s) \in Range(seen) THEN seen ELSE Append(seen, Head(s)))

\* A variant of Unique that keeps every occurrence.
Unique_KeepAll(s) == s

Unique(s) == UniqueFrom(s, <<>>)

\* A variant of populateOptionGroupValues that adds a group, of no name, for
\* each position a variant has a value at beyond the item's groups.
populateOptionGroupValues_AddsGroups(currentRow) ==
    LET values == [k \in DOMAIN currentRow.variants |-> currentRow.variants[k].optionValues]
        groups == currentRow.product.optionGroups
        widths == {Len(groups)} \cup {Len(values[k]) : k \in DOMAIN values}
        width == CHOOSE w \in widths : \A v \in widths : v <= w
    IN [currentRow EXCEPT !.product.optionGroups =
            [i \in 1..width |->
                [name |-> IF i \in DOMAIN groups THEN groups[i].name ELSE <<>>,
                 values |-> Unique([k \in DOMAIN values |-> At(values[k], i)])]]]

\* The item with each option group's values assigned.
populateOptionGroupValues(currentRow) ==
    LET values == [k \in DOMAIN currentRow.variants |-> currentRow.variants[k].optionValues]
        groups == currentRow.product.optionGroups
    IN [currentRow EXCEPT !.product.optionGroups =
            [i \in DOMAIN groups |->
                [groups[i] EXCEPT
                    !.values = Unique([k \in DOMAIN values |-> At(values[k], i)])]]]

\* A variant of validateOptionValueCount that reports only values in excess.
validateOptionValueCount_ExcessOnly(r, currentRow) ==
    IF currentRow = <<>> THEN <<>>
    ELSE LET optionValues == parseStringArray(Field(r, OptionValues))
         IN IF Len(currentRow[1].product.optionGroups) < Len(optionValues)
            THEN <<"The number of optionValues must match the number of optionGroups">>
            ELSE <<>>

\* A variant of validateOptionValueCount that reports a row met while no item
\* is open.
validateOptionValueCount_NoItemError(r, currentRow) ==
    LET optionValues == parseStringArray(Field(r, OptionValues))
        groups == IF currentRow = <<>> THEN 0 ELSE Len(currentRow[1].product.optionGroups)
    IN IF currentRow = <<>> \/ groups # Len(optionValues)
       THEN <<"The number of optionValues must match the number of optionGroups">>
       ELSE <<>>

\* currentRow is the open item, if any: <<>> or <<item>>.
validateOptionValueCount(r, currentRow) ==
    IF currentRow = <<>> THEN <<>>
    ELSE LET optionValues == parseStringArray(Field(r, OptionValues))
         IN IF Len(currentRow[1].product.optionGroups) # Len(optionValues)
            THEN <<"The number of optionValues must match the number of optionGroups">>
            ELSE <<>>

\* A variant of OnLine that numbers the data rows from 1.
OnLine_FromFirstDataRow(message, line) == message \o " on line " \o ToString(line - 1)

\* message + ` on line ${line}`
OnLine(message, line) == message \o " on line " \o ToString(line)

\* ------------------------------------------------------------ processRawRecords

\* A variant of skipRecord that also closes the open item.
skipRecord_ClosesItem(st, line, columnCountError) ==
    [results |-> IF st.currentRow # <<>>
                 THEN Append(st.results, populateOptionGroupValues(st.currentRow[1]))
                 ELSE st.results,
     errors |-> Append(st.errors, OnLine(columnCountError, line)),
     currentRow |-> <<>>,
     line |-> line]

\* errors.push(columnCountError + ` on line ${line}`); continue
skipRecord(st, line, columnCountError) ==
    [st EXCEPT !.line = line, !.errors = Append(@, OnLine(columnCountError, line))]

\* A variant of closeItem that appends the item without its groups' values.
closeItem_Unfinalized(results, currentRow) ==
    IF currentRow # <<>> THEN Append(results, currentRow[1]) ELSE results

\* if (currentRow) { populateOptionGroupValues(currentRow); results.push(currentRow) }
closeItem(results, currentRow) ==
    IF currentRow # <<>>
    THEN Append(results, populateOptionGroupValues(currentRow[1]))
    ELSE results

\* A variant of openItem that leaves the row's own variant out.
openItem_NoVariant(r) == [product |-> parseProductFromRecord(r), variants |-> <<>>]

\* { product: parseProductFromRecord(r), variants: [parseVariantFromRecord(r)] }
openItem(r) ==
    [product |-> parseProductFromRecord(r), variants |-> <<parseVariantFromRecord(r)>>]

\* A variant of pushVariant that puts the variant first.
pushVariant_First(item, variant) == [item EXCEPT !.variants = <<variant>> \o @]

\* currentRow.variants.push(variant)
pushVariant(item, variant) == [item EXCEPT !.variants = Append(@, variant)]

\* One iteration of the for-of loop over the data rows, on the locals
\* st = [results, errors, currentRow, line].
processRecord(headerRow, record, st) ==
    LET line == st.line + 1
        columnCountError == validateColumnCount(headerRow, record)
    IN IF columnCountError # <<>>
       THEN skipRecord(st, line, columnCountError[1])
       ELSE LET r == mapRowToObject(headerRow, record)
                opens == Truthy(Field(r, Name))
                results == IF opens THEN closeItem(st.results, st.currentRow)
                           ELSE st.results
                currentRow ==
                    IF opens
                    THEN <<openItem(r)>>
                    ELSE IF st.currentRow # <<>>
                         THEN <<pushVariant(st.currentRow[1], parseVariantFromRecord(r))>>
                         ELSE <<>>
                optionError == validateOptionValueCount(r, currentRow)
            IN [results |-> results,
                errors |-> IF optionError # <<>>
                           THEN Append(st.errors, OnLine(optionError[1], line))
                           ELSE st.errors,
                currentRow |-> currentRow,
                line |-> line]

\* The locals when the loop is entered.
loopStart == [results |-> <<>>, errors |-> <<>>, currentRow |-> <<>>, line |-> 1]

\* A variant of closeLast that leaves the open item out of the results.
closeLast_Forgotten(st) == [results |-> st.results, errors |-> st.errors]

\* The statements after the loop: the open item is finalized and appended.
closeLast(st) == [results |-> closeItem(st.results, st.currentRow), errors |-> st.errors]

RECURSIVE processRecords(_, _, _)
processRecords(headerRow, rows, st) ==
    IF rows = <<>> THEN st
    ELSE processRecords(headerRow, Tail(rows), processRecord(headerRow, Head(rows), st))

\* records.shift(): the first row, if any (<<>> or <<row>>).
shiftRecords(records) == IF records = <<>> THEN <<>> ELSE <<Head(records)>>

\* The whole function on an array of rows: what it returns, or that it throws.
processRawRecords(records) ==
    LET headerRow == shiftRecords(records)
        columnError == validateRequiredColumns(headerRow)
    IN IF columnError.threw THEN [threw |-> TRUE, results |-> <<>>, errors |-> <<>>]
       ELSE IF columnError.error # <<>>
            THEN [threw |-> FALSE, results |-> <<>>, errors |-> columnError.error]
            ELSE LET out == closeLast(processRecords(headerRow[1], Tail(records), loopStart))
                 IN [threw |-> FALSE, results |-> out.results, errors |-> out.errors]

\* ------------------------------------------------------------ parseProducts

\* The error the decoder reports for a text it cannot decode.
DecodeError == "CsvError"

Pending == [state |-> "pending", results |-> <<>>, errors |-> <<>>, reason |-> ""]

\* resolve and reject settle a pending promise and are ignored afterwards.
resolve(p, value) ==
    IF p.state = "pending"
    THEN [state |-> "resolved", results |-> value.results, errors |-> value.errors,
          reason |-> ""]
    ELSE p

reject(p, reason) ==
    IF p.state = "pending"
    THEN [state |-> "rejected", results |-> <<>>, errors |-> <<>>, reason |-> reason]
    ELSE p

\* The string branch as a function of the text (the rows it decodes to, and
\* whether the decoder then fails): the promise, and whether the callback threw.
parseProductsOfString(text, bad) ==
    IF bad
    THEN [promise |-> resolve(Pending, [results |-> <<>>, errors |-> <<DecodeError>>]),
          uncaught |-> FALSE]
    ELSE LET parseResult == processRawRecords(text)
         IN IF parseResult.threw
            THEN [promise |-> Pending, uncaught |-> TRUE]
            ELSE [promise |-> resolve(Pending, [results |-> parseResult.results,
                                                errors |-> parseResult.errors]),
                  uncaught |-> FALSE]

\* ------------------------------------------------------------ inputs

\* The largest number of data rows of a text.
MaxRows == 3
\* The largest number of rows of a text the decoder fails on after them.
MaxBadRows == 1

\* The cells of a row, by column name.
Cells(name, slug, optionGroups, optionValues, sku, price) ==
    (Name :> name) @@ (Slug :> slug) @@ (Description :> <<>>) @@ (Assets :> <<"p">>)
    @@ (OptionGroups :> optionGroups) @@ (OptionValues :> optionValues)
    @@ (Sku :> sku) @@ (Price :> price) @@ (TaxCategory :> <<"t">>)
    @@ (VariantAssets :> <<>>)

\* The cell of a column that is not read: an extra column, or an earlier
\* column of the same name.
Filler == <<"x">>

\* The row of the given cells under a header: each required name's cell at
\* the first column of that name, the filler elsewhere; one cell short, or one
\* cell long, for a ragged row.
RowOf(header, cells, shape) ==
    LET full == [i \in DOMAIN header |->
                    IF header[i] \in DOMAIN cells
                       /\ \A j \in 1..(i - 1) : header[j] # header[i]
                    THEN cells[header[i]] ELSE Filler]
    IN CASE shape = "short" -> SubSeq(full, 1, Len(full) - 1)
         [] shape = "long" -> Append(full, Filler)
         [] OTHER -> full

ItemTwoGroups == [cells |-> Cells(<<"A">>, <<>>, <<"g", ",", " ", "h">>, <<"S">>, <<"1">>, <<"1", "0">>),
                  shape |-> "full"]
ItemOneGroup == [cells |-> Cells(<<"B">>, <<"b">>, <<"g">>, <<"S">>, <<"2">>, <<>>),
                 shape |-> "full"]
ItemBlankName == [cells |-> Cells(<<" ">>, <<>>, <<"g">>, <<"M">>, <<"3">>, <<"1">>),
                  shape |-> "full"]
VariantS == [cells |-> Cells(<<>>, <<>>, <<>>, <<"S">>, <<"4">>, <<"x">>), shape |-> "full"]
VariantM == [cells |-> Cells(<<>>, <<>>, <<>>, <<"M">>, <<"5">>, <<"2">>), shape |-> "full"]
VariantMS == [cells |-> Cells(<<>>, <<>>, <<"g">>, <<"M", ",", "S", ",">>, <<"6">>, <<"2">>),
              shape |-> "full"]
ShortItem == [cells |-> ItemOneGroup.cells, shape |-> "short"]
LongVariant == [cells |-> VariantM.cells, shape |-> "long"]

RowKinds ==
    {ItemTwoGroups, ItemOneGroup, ItemBlankName, VariantS, VariantM, VariantMS,
     ShortItem, LongVariant}

\* The texts, as the rows they decode to: no row at all, or a header and up to
\* maxRows data rows.
Texts(headers, rowKinds, maxRows) ==
    {<<>>} \cup
    UNION {UNION {{<<h>> \o [i \in 1..n |-> RowOf(h, f[i].cells, f[i].shape)] :
                     f \in [1..n -> rowKinds]} : n \in 0..maxRows} : h \in headers}

\* The arguments of parseProducts: a string or a stream of a text; bad when
\* the decoder fails on the text after these rows.
Inputs(texts) ==
    {[kind |-> k, text |-> t, bad |-> b] :
        k \in {"string", "stream"}, t \in texts, b \in BOOLEAN}

\* ------------------------------------------------------------ state

VARIABLES
    input,        \* parseProducts's argument
    pc,           \* "start", "waiting" (for an event), "loop" (in processRawRecords), "done"
    errors,       \* parseProducts: errors
    records,      \* the records given to the callback, or the stream branch's records
    srcState,     \* the input stream: "none", "open", "ended", "errored"
    delivered,    \* the number of rows of the text the decoder has produced
    parserBuf,    \* the rows the decoder has produced that were not read yet
    parserState,  \* the decoder, as a stream: "none", "open", "ended", "errored"
    headerRow,    \* processRawRecords: headerRow
    rows,         \* processRawRecords: the records the loop has yet to visit
    line,         \* processRawRecords: line
    results,      \* processRawRecords: results
    rowErrors,    \* processRawRecords: errors
    currentRow,   \* processRawRecords: currentRow, if any
    promise,      \* the promise parseProducts returns
    uncaught      \* an exception left a handler, or an 'error' event had no listener

vars ==
    <<input, pc, errors, records, srcState, delivered, parserBuf, parserState,
      headerRow, rows, line, results, rowErrors, currentRow, promise, uncaught>>

locals == <<headerRow, rows, line, results, rowErrors, currentRow>>
streams == <<srcState, delivered, parserBuf, parserState>>

InitWith(inputs) ==
    /\ input \in inputs
    /\ pc = "start"
    /\ errors = <<>>
    /\ records = <<>>
    /\ srcState = IF input.kind = "stream" THEN "open" ELSE "none"
    /\ delivered = 0
    /\ parserBuf = <<>>
    /\ parserState = "none"
    /\ headerRow = <<>>
    /\ rows = <<>>
    /\ line = 0
    /\ results = <<>>
    /\ rowErrors = <<>>
    /\ currentRow = <<>>
    /\ promise = Pending
    /\ uncaught = FALSE

\* The canonical header, every kind of row.
Init ==
    InitWith({in \in Inputs(Texts({requiredColumns}, RowKinds, MaxRows)) :
                in.bad => Len(in.text) <= MaxBadRows})

\* ------------------------------------------------------------ actions

\* The promise's executor: the closure's errors, and either the decoder called
\* on the string or the stream piped into a new decoder with its listeners.
ParseProducts ==
    /\ pc = "start"
    /\ pc' = "waiting"
    /\ errors' = <<>>
    /\ records' = <<>>
    /\ parserState' = IF input.kind = "stream" THEN "open" ELSE "none"
    /\ UNCHANGED <<input, srcState, delivered, parserBuf, locals, promise, uncaught>>

\* this.processRawRecords(records) up to the loop, within a handler: it throws
\* on no row at all, returns the column error (which the handler resolves
\* with), or enters the loop.
EnterProcessRawRecords(recs) ==
    LET first == shiftRecords(recs)
        columnError == validateRequiredColumns(first)
    IN IF columnError.threw
       THEN /\ uncaught' = TRUE
            /\ pc' = "done"
            /\ UNCHANGED <<errors, locals, promise>>
       ELSE IF columnError.error # <<>>
            THEN /\ errors' = errors \o columnError.error
                 /\ promise' = resolve(promise, [results |-> <<>>, errors |-> errors'])
                 /\ pc' = "done"
                 /\ UNCHANGED <<locals, uncaught>>
            ELSE /\ headerRow' = first[1]
                 /\ rows' = Tail(recs)
                 /\ line' = loopStart.line
                 /\ results' = loopStart.results
                 /\ rowErrors' = loopStart.errors
                 /\ currentRow' = loopStart.currentRow
                 /\ pc' = "loop"
                 /\ UNCHANGED <<errors, promise, uncaught>>

\* One iteration of the loop of processRawRecords.
ProcessRecord ==
    /\ pc = "loop"
    /\ rows # <<>>
    /\ LET st == processRecord(headerRow, Head(rows),
                               [results |-> results, errors |-> rowErrors,
                                currentRow |-> currentRow, line |-> line])
       IN /\ results' = st.results
          /\ rowErrors' = st.errors
          /\ currentRow' = st.currentRow
          /\ line' = st.line
    /\ rows' = Tail(rows)
    /\ UNCHANGED <<input, pc, errors, records, streams, headerRow, promise, uncaught>>

\* A variant of ProcessReturn that rejects when a row was reported.
ProcessReturn_RejectsErrors ==
    /\ pc = "loop"
    /\ rows = <<>>
    /\ LET parseResult == closeLast([results |-> results, errors |-> rowErrors,
                                     currentRow |-> currentRow, line |-> line])
       IN /\ results' = parseResult.results
          /\ errors' = errors \o parseResult.errors
          /\ promise' = IF errors' # <<>>
                        THEN reject(promise, errors'[1])
                        ELSE resolve(promise, [results |-> parseResult.results,
                                               errors |-> errors'])
    /\ pc' = "done"
    /\ UNCHANGED <<input, records, streams, headerRow, rows, line, rowErrors,
                   currentRow, uncaught>>

\* The end of processRawRecords and of the handler that called it: the open
\* item is closed, and the promise resolved with the results and the errors.
ProcessReturn ==
    /\ pc = "loop"
    /\ rows = <<>>
    /\ LET parseResult == closeLast([results |-> results, errors |-> rowErrors,
                                     currentRow |-> currentRow, line |-> line])
       IN /\ results' = parseResult.results
          /\ errors' = errors \o parseResult.errors
          /\ promise' = resolve(promise, [results |-> parseResult.results,
                                          errors |-> errors'])
    /\ pc' = "done"
    /\ UNCHANGED <<input, records, streams, headerRow, rows, line, rowErrors,
                   currentRow, uncaught>>

\* The decoder's callback on a string input.
StringCallback ==
    /\ input.kind = "string"
    /\ pc = "waiting"
    /\ IF input.bad
       THEN /\ errors' = errors \o <<DecodeError>>
            /\ promise' = resolve(promise, [results |-> <<>>, errors |-> errors'])
            /\ pc' = "done"
            /\ UNCHANGED <<records, locals, uncaught>>
       ELSE /\ records' = input.text
            /\ EnterProcessRawRecords(input.text)
    /\ UNCHANGED <<input, streams>>

\* The input stream's next chunk, piped into the decoder, which produces the
\* rows the chunk completes.
SourceData ==
    /\ input.kind = "stream"
    /\ pc = "waiting"
    /\ srcState = "open"
    /\ parserState = "open"
    /\ \E k \in 1..(Len(input.text) - delivered) :
          /\ delivered' = delivered + k
          /\ parserBuf' = parserBuf \o SubSeq(input.text, delivered + 1, delivered + k)
    /\ UNCHANGED <<input, pc, errors, records, srcState, parserState, locals, promise,
                   uncaught>>

\* A variant of readAll that reads one record only.
readAll_Once(buf, recs) == IF buf = <<>> THEN recs ELSE Append(recs, Head(buf))

\* while ((record = parser.read())) records.push(record)
RECURSIVE readAll(_, _)
readAll(buf, recs) ==
    IF buf = <<>> THEN recs ELSE readAll(Tail(buf), Append(recs, Head(buf)))

\* A variant of ParserReadable that groups the records read so far and
\* resolves with them.
ParserReadable_Processes ==
    /\ input.kind = "stream"
    /\ pc = "waiting"
    /\ parserState # "ended"
    /\ parserBuf # <<>>
    /\ records' = readAll(parserBuf, records)
    /\ parserBuf' = <<>>
    /\ EnterProcessRawRecords(readAll(parserBuf, records))
    /\ UNCHANGED <<input, srcState, delivered, parserState>>

\* The decoder's 'readable' listener.
ParserReadable ==
    /\ input.kind = "stream"
    /\ pc = "waiting"
    /\ parserState # "ended"
    /\ parserBuf # <<>>
    /\ records' = readAll(parserBuf, records)
    /\ parserBuf' = <<>>
    /\ UNCHANGED <<input, pc, errors, srcState, delivered, parserState, locals, promise,
                   uncaught>>

\* The input stream ends after its last chunk, which ends the decoder's input.
SourceEnd ==
    /\ input.kind = "stream"
    /\ pc = "waiting"
    /\ srcState = "open"
    /\ parserState = "open"
    /\ ~input.bad
    /\ delivered = Len(input.text)
    /\ srcState' = "ended"
    /\ UNCHANGED <<input, pc, errors, records, delivered, parserBuf, parserState, locals,
                   promise, uncaught>>

\* The decoder's 'end' listener: 'end' is emitted once the decoder's input
\* has ended and every row was read.
ParserEnd ==
    /\ input.kind = "stream"
    /\ pc = "waiting"
    /\ srcState = "ended"
    /\ parserState = "open"
    /\ parserBuf = <<>>
    /\ parserState' = "ended"
    /\ EnterProcessRawRecords(records)
    /\ UNCHANGED <<input, records, srcState, delivered, parserBuf>>

\* The decoder's 'error' listener, reject: the decoder fails on the part of
\* the text that follows the rows it decoded.
ParserError ==
    /\ input.kind = "stream"
    /\ pc = "waiting"
    /\ srcState = "open"
    /\ parserState = "open"
    /\ input.bad
    /\ delivered = Len(input.text)
    /\ parserState' = "errored"
    /\ promise' = reject(promise, DecodeError)
    /\ UNCHANGED <<input, pc, errors, records, srcState, delivered, parserBuf, locals,
                   uncaught>>

\* The input stream emits 'error'.  pipe does not forward it and parseProducts
\* listens for it nowhere: the event is unhandled, and the decoder's input is
\* never ended.
SourceError ==
    /\ input.kind = "stream"
    /\ pc = "waiting"
    /\ srcState = "open"
    /\ srcState' = "errored"
    /\ uncaught' = TRUE
    /\ UNCHANGED <<input, pc, errors, records, delivered, parserBuf, parserState, locals,
                   promise>>

Next ==
    \/ ParseProducts
    \/ StringCallback
    \/ SourceData
    \/ ParserReadable
    \/ SourceEnd
    \/ ParserEnd
    \/ ParserError
    \/ SourceError
    \/ ProcessRecord
    \/ ProcessReturn

Spec == Init /\ [][Next]_vars

\* ------------------------------------------------------------ headers

\* The largest number of required columns a header lacks.
MaxMissing == 2
\* The largest number of data rows under the headers that lack columns.
MaxColumnRows == 1

\* A column that is not required.
ExtraColumn == <<"n", "a", "m", "e", "s">>

Reverse(s) == [i \in DOMAIN s |-> s[Len(s) + 1 - i]]

Without(s, cols) == SelectSeq(s, LAMBDA c : c \notin cols)

\* Headers in two orders, lacking up to MaxMissing required columns, with and
\* without an extra column.
ColumnHeaders ==
    {Without(order, missing) \o tail :
        order \in {requiredColumns, Reverse(requiredColumns)},
        missing \in {m \in SUBSET Range(requiredColumns) : Cardinality(m) <= MaxMissing},
        tail \in {<<>>, <<ExtraColumn>>}}

ColumnRowKinds == {ItemOneGroup, VariantS, ShortItem}

InitColumns ==
    InitWith({in \in Inputs(Texts(ColumnHeaders, ColumnRowKinds, MaxColumnRows)) :
                in.bad => Len(in.text) <= MaxBadRows})

SpecColumns == InitColumns /\ [][Next]_vars

\* ------------------------------------------------------------ the input, as the claims read it

\* The decoder delivered every row of the text to processRawRecords, which
\* found a header row.
Delivered == pc = "done" /\ ~input.bad /\ input.text # <<>>

Header == input.text[1]
DataRows == Tail(input.text)

\* The required columns the header lacks, as positions of requiredColumns.
MissingColumns ==
    {i \in DOMAIN requiredColumns : \A k \in DOMAIN Header : Header[k] # requiredColumns[i]}

HeaderComplete == MissingColumns = {}

RECURSIVE Ascending(_)
Ascending(S) ==
    IF S = {} THEN <<>>
    ELSE LET m == CHOOSE x \in S : \A y \in S : x <= y
         IN <<m>> \o Ascending(S \ {m})

RECURSIVE QuotedList(_)
QuotedList(positions) ==
    IF positions = <<>> THEN ""
    ELSE LET rest == QuotedList(Tail(positions))
         IN "\"" \o Str(requiredColumns[Head(positions)]) \o "\""
            \o (IF rest = "" THEN "" ELSE ", " \o rest)

\* Data row j (line j + 1) has the header's cell count.
Kept(j) == Len(DataRows[j]) = Len(Header)

\* The cell of data row j in the (last) column of the given name.
CellAt(j, col) ==
    DataRows[j][CHOOSE i \in DOMAIN Header :
                    Header[i] = col /\ \A k \in (i + 1)..Len(Header) : Header[k] # col]

\* Data row j opens an item: it is not skipped and its name cell is not empty.
Opens(j) == Kept(j) /\ CellAt(j, Name) # <<>>

\* The number of items opened up to data row j: the position in results of
\* the item open after row j, if not 0.
ItemIndex(j) == Cardinality({i \in 1..j : Opens(i)})

\* The row that opened the item open after data row j.
Opener(j) == CHOOSE i \in 1..j : Opens(i) /\ \A k \in (i + 1)..j : ~Opens(k)

\* The position of row j's variant in its item.
VariantIndex(j) == Cardinality({i \in Opener(j)..j : Kept(i)})

\* The rows of item i: its opening row and the non-skipped rows after it up
\* to the next opening row.
GroupRows(i) == {j \in DOMAIN DataRows : Kept(j) /\ ItemIndex(j) = i}

LengthMessage(j) ==
    "Invalid Record Length: header length is " \o ToString(Len(Header)) \o ", got "
    \o ToString(Len(DataRows[j])) \o " on line " \o ToString(j + 1)

ArityMessage(j) ==
    "The number of optionValues must match the number of optionGroups on line "
    \o ToString(j + 1)

\* ------------------------------------------------------------ C1

\* C1: when the header lacks required columns, the outcome is no result and
\* exactly one error, the message listing the missing columns, quoted, joined
\* by ", ", in the order of requiredColumns; no data row is processed.
C1_MissingColumns ==
    (Delivered /\ ~HeaderComplete) =>
        /\ promise.state = "resolved"
        /\ promise.results = <<>>
        /\ promise.errors = <<"The import file is missing the following columns: "
                               \o QuotedList(Ascending(MissingColumns))>>
        /\ line = 0 /\ results = <<>> /\ rowErrors = <<>> /\ currentRow = <<>>

\* Two columns are missing from a reversed header with an extra column, and
\* data rows follow.
C1_Witness ==
    /\ Delivered
    /\ Cardinality(MissingColumns) = 2
    /\ Header[1] # requiredColumns[1]
    /\ ExtraColumn \in Range(Header)
    /\ DataRows # <<>>
    /\ promise.state = "resolved"

\* ------------------------------------------------------------ C2

\* The text without its ragged data rows.
KeptText == <<Header>> \o SelectSeq(DataRows, LAMBDA row : Len(row) = Len(Header))

\* C2: each data row of another cell count than the header's is reported with
\* both counts and its line, and the results are those of the text without
\* these rows.
C2_RaggedRows ==
    (Delivered /\ HeaderComplete) =>
        /\ promise.state = "resolved"
        /\ \A j \in DOMAIN DataRows :
              ~Kept(j) => LengthMessage(j) \in Range(promise.errors)
        /\ promise.results = processRawRecords(KeptText).results

\* A short row with a name and a long row are skipped between rows that are
\* parsed.
C2_Witness ==
    /\ Delivered /\ HeaderComplete
    /\ Len(DataRows) >= 3
    /\ Kept(1) /\ ~Kept(2) /\ Kept(3)
    /\ Len(DataRows[2]) < Len(Header)
    /\ promise.state = "resolved"
    /\ promise.results # <<>>

\* ------------------------------------------------------------ C3

\* C3: for a non-skipped row processed while an item is open, the arity error
\* of its line is reported exactly when its optionValues count differs from
\* the item's optionGroups count, and its variant is in the item either way.
C3_ArityError ==
    (Delivered /\ HeaderComplete) =>
        \A j \in DOMAIN DataRows :
            (Kept(j) /\ ItemIndex(j) > 0) =>
                /\ promise.state = "resolved"
                /\ ItemIndex(j) <= Len(promise.results)
                /\ LET item == promise.results[ItemIndex(j)]
                       r == mapRowToObject(Header, DataRows[j])
                   IN /\ VariantIndex(j) <= Len(item.variants)
                      /\ item.variants[VariantIndex(j)] = parseVariantFromRecord(r)
                      /\ (ArityMessage(j) \in Range(promise.errors))
                            <=> (Len(parseStringArray(CellAt(j, OptionValues)))
                                    # Len(item.product.optionGroups))

\* An item's first row has the arity error and a later row of it has none.
C3_Witness ==
    /\ Delivered /\ HeaderComplete
    /\ promise.state = "resolved"
    /\ \E j, k \in DOMAIN DataRows :
          /\ Opens(j) /\ k > j /\ Kept(k) /\ ItemIndex(k) = ItemIndex(j)
          /\ ArityMessage(j) \in Range(promise.errors)
          /\ ArityMessage(k) \notin Range(promise.errors)

\* ------------------------------------------------------------ C4

\* Every data row has the header's length and the first one has a name.
ValidInput ==
    /\ HeaderComplete
    /\ DataRows # <<>>
    /\ \A j \in DOMAIN DataRows : Kept(j)
    /\ Opens(1)

\* C4: a valid input of N row groups gives N results, the i-th with as many
\* variants as the i-th group has rows.
C4_GroupCounts ==
    (Delivered /\ ValidInput) =>
        /\ promise.state = "resolved"
        /\ Len(promise.results) = Cardinality({j \in DOMAIN DataRows : Opens(j)})
        /\ \A i \in DOMAIN promise.results :
              Len(promise.results[i].variants) = Cardinality(GroupRows(i))

\* Two groups, the first of two rows.
C4_Witness ==
    /\ Delivered /\ ValidInput
    /\ Len(promise.results) = 2
    /\ Len(promise.results[1].variants) = 2

\* ------------------------------------------------------------ C5

\* The value at position i of some variant of the item.
ValuesAt(item, i) ==
    {item.variants[k].optionValues[i] :
        k \in {n \in DOMAIN item.variants : i \in DOMAIN item.variants[n].optionValues}}

\* The first variant of the item with value v at position i.
FirstVariantWith(item, i, v) ==
    CHOOSE k \in DOMAIN item.variants :
        /\ i \in DOMAIN item.variants[k].optionValues
        /\ item.variants[k].optionValues[i] = v
        /\ \A n \in 1..(k - 1) :
              ~(i \in DOMAIN item.variants[n].optionValues
                /\ item.variants[n].optionValues[i] = v)

\* C5: each option group's values hold no duplicate, hold every value a
\* variant has at the group's position, and these in the order of their first
\* occurrence among the variants.
C5_GroupValues ==
    promise.state = "resolved" =>
        \A n \in DOMAIN promise.results :
            LET item == promise.results[n]
            IN \A i \in DOMAIN item.product.optionGroups :
                  LET values == item.product.optionGroups[i].values
                  IN /\ \A a, b \in DOMAIN values : values[a] = values[b] => a = b
                     /\ ValuesAt(item, i) \subseteq Range(values)
                     /\ \A a, b \in DOMAIN values :
                           (a < b /\ values[a] \in ValuesAt(item, i)
                                  /\ values[b] \in ValuesAt(item, i))
                               => FirstVariantWith(item, i, values[a])
                                     < FirstVariantWith(item, i, values[b])

\* An item with variants of values S, M, S in its first group.
C5_Witness ==
    /\ promise.state = "resolved"
    /\ \E n \in DOMAIN promise.results :
          LET item == promise.results[n]
          IN /\ Len(item.variants) = 3
             /\ item.product.optionGroups # <<>>
             /\ item.variants[1].optionValues = <<<<"S">>>>
             /\ item.variants[2].optionValues = <<<<"M">>>>
             /\ item.variants[3].optionValues = <<<<"S">>>>
             /\ item.product.optionGroups[1].values = <<<<"S">>, <<"M">>>>

\* ------------------------------------------------------------ C6

\* The call's outcome is known: the promise is settled, or the handler that
\* was to settle it has run.
Finished == pc = "done" \/ promise.state # "pending"

Outcome == [promise |-> promise, uncaught |-> uncaught]

C7_StreamFailureRejects ==
    (input.kind = "stream" /\ (srcState = "errored" \/ parserState = "errored")
        /\ ~ENABLED Next)
        => promise.state = "rejected"

\* ------------------------------------------------------------ C8

\* The listeners and callbacks the event loop runs once they are due.
Handlers ==
    \/ StringCallback
    \/ ParserReadable
    \/ ParserEnd
    \/ ProcessRecord
    \/ ProcessReturn

\* The largest number of data rows of a text under FairSpec.
MaxFairRows == 3

FairRowKinds == {ItemTwoGroups, VariantS, ShortItem, LongVariant}

InitFair ==
    InitWith({in \in Inputs(Texts({requiredColumns}, FairRowKinds, MaxFairRows)) :
                in.bad => Len(in.text) <= MaxBadRows})

\* The event loop runs a callback or a listener that is due.
FairSpec == InitFair /\ [][Next]_vars /\ WF_vars(Handlers)

\* The text has a header row and its rows are delivered: the string is
\* decoded, or the stream has ended after its last row.
RowsDelivered ==
    /\ pc # "start"
    /\ input.text # <<>>
    /\ ~input.bad
    /\ input.kind = "stream" => srcState = "ended"

\* Every entry of the errors is the column message or a row's message.
RowLevelErrors ==
    IF HeaderComplete
    THEN \A e \in Range(promise.errors) :
            \E j \in DOMAIN DataRows : e = LengthMessage(j) \/ e = ArityMessage(j)
    ELSE Len(promise.errors) = 1

\* C8: when the rows are delivered and there is a header row, the call
\* neither throws nor rejects, it resolves in the end, and what it reports
\* are entries of errors.
C8_Resolves ==
    /\ [](RowsDelivered =>
            /\ ~uncaught
            /\ promise.state # "rejected"
            /\ promise.state = "resolved" => RowLevelErrors)
    /\ (RowsDelivered ~> promise.state = "resolved")

\* A stream of a variant row before any item, a ragged row and a row with the
\* arity error resolved with two errors.
C8_Witness ==
    /\ input.kind = "stream"
    /\ RowsDelivered
    /\ Len(DataRows) = 3
    /\ Kept(1) /\ ~Opens(1) /\ ~Kept(2) /\ Opens(3)
    /\ promise.state = "resolved"
    /\ promise.errors = <<LengthMessage(2), ArityMessage(3)>>

\* ------------------------------------------------------------ C9

\* The largest number of data rows under the reordered headers.
MaxOrderRows == 2

\* Complete headers: reordered, with an extra column, with a second column
\* of a required name.
OrderHeaders ==
    {requiredColumns,
     Reverse(requiredColumns),
     requiredColumns \o <<ExtraColumn>>,
     <<ExtraColumn>> \o Reverse(requiredColumns),
     requiredColumns \o <<Name>>}

OrderRowKinds == {ItemTwoGroups, ItemOneGroup, VariantS, VariantMS, ShortItem}

InitOrder ==
    InitWith({in \in Inputs(Texts(OrderHeaders, OrderRowKinds, MaxOrderRows)) :
                in.bad => Len(in.text) <= MaxBadRows})

SpecOrder == InitOrder /\ [][Next]_vars

\* Permutations of n columns: the reversal, a rotation, a transposition.
ColumnPermutations(n) ==
    {[i \in 1..n |-> n + 1 - i],
     [i \in 1..n |-> IF i = n THEN 1 ELSE i + 1],
     [i \in 1..n |-> IF i = 1 THEN 2 ELSE IF i = 2 THEN 1 ELSE i]}

\* The text with the columns of the header and of every row of its length
\* permuted.
Permuted(text, perm) ==
    [k \in DOMAIN text |->
        IF Len(text[k]) = Len(perm) THEN [i \in DOMAIN perm |-> text[k][perm[i]]]
        ELSE text[k]]

\* The text with one more column, of no required name, first or last, and a
\* cell for it in every row.
Widened(text) ==
    {[k \in DOMAIN text |-> text[k] \o <<IF k = 1 THEN <<"i", "d">> ELSE <<"7">>>>],
     [k \in DOMAIN text |-> <<IF k = 1 THEN <<"i", "d">> ELSE <<"7">>>> \o text[k]]}

Rearranged(text) ==
    {Permuted(text, perm) : perm \in ColumnPermutations(Len(text[1]))} \cup Widened(text)

IsArityMessage(e) == \E n \in 1..(MaxOrderRows + 2) : e = ArityMessage(n)

ArityErrors(errs) == SelectSeq(errs, IsArityMessage)

SameResultsRearranged ==
    \A text \in Rearranged(input.text) :
        LET other == processRawRecords(text)
        IN /\ ~other.threw
           /\ other.results = promise.results
           /\ ArityErrors(other.errors) = ArityErrors(promise.errors)

\* No required name is the name of two columns of the header.
DistinctColumns ==
    \A i, k \in DOMAIN Header :
        (Header[i] = Header[k] /\ Header[i] \in Range(requiredColumns)) => i = k

\* C9 as claimed: the results and the arity errors are those of the text
\* with its columns permuted or with an extra column added.
C9_OrderIrrelevant ==
    (Delivered /\ HeaderComplete) => SameResultsRearranged

\* C9: the same, for a header in which no required name occurs twice.
C9_OrderIrrelevantDistinct ==
    (Delivered /\ HeaderComplete /\ DistinctColumns) => SameResultsRearranged

\* Under a reversed header with an extra column, an item of two variants and
\* an arity error.
C9_Witness ==
    /\ Delivered /\ HeaderComplete /\ DistinctColumns
    /\ Header[1] = ExtraColumn
    /\ Header[2] = VariantAssets
    /\ promise.state = "resolved"
    /\ Len(promise.results) = 1
    /\ Len(promise.results[1].variants) = 2
    /\ ArityErrors(promise.errors) # <<>>

\* ------------------------------------------------------------ C10

\* C10 as claimed: every element of an option group's values is the value
\* some variant of the item has at the group's position.
C10_NoPlaceholder ==
    promise.state = "resolved" =>
        \A n \in DOMAIN promise.results :
            LET item == promise.results[n]
            IN \A i \in DOMAIN item.product.optionGroups :
                  Range(item.product.optionGroups[i].values) \subseteq ValuesAt(item, i)

\* ------------------------------------------------------------ C11

\* Data row j is not skipped and its name cell, trimmed, is not empty.
OpensTrimmed(j) == Kept(j) /\ Trim(CellAt(j, Name)) # <<>>

\* C11 as claimed: the rows that open an item are the non-skipped rows whose
\* trimmed name cell is not empty, one item each, and every item in the
\* results has a non-empty name.
C11_OpensOnTrimmedName ==
    (Delivered /\ HeaderComplete) =>
        /\ promise.state = "resolved"
        /\ Len(promise.results) = Cardinality({j \in DOMAIN DataRows : OpensTrimmed(j)})
        /\ \A n \in DOMAIN promise.results : promise.results[n].product.name # <<>>

\* ------------------------------------------------------------ C12

\* The loop is about to visit a row of another cell count than the header's.
AtRaggedRow == pc = "loop" /\ rows # <<>> /\ Len(Head(rows)) # Len(headerRow)

\* C12: visiting a ragged row changes nothing but the line counter, which
\* advances by one, and the errors, which get the row's length message: the
\* results, the open item with its variants and option groups, and the
\* promise are as before, and no arity error is added.
C12_RaggedRowFrame ==
    [][AtRaggedRow =>
          /\ results' = results
          /\ currentRow' = currentRow
          /\ line' = line + 1
          /\ rowErrors' =
                Append(rowErrors,
                       "Invalid Record Length: header length is "
                       \o ToString(Len(headerRow)) \o ", got "
                       \o ToString(Len(Head(rows))) \o " on line " \o ToString(line + 1))
          /\ errors' = errors
          /\ promise' = promise]_vars

\* A short row with a name was visited while item A was open, and A is still
\* the open item, with its one variant.
C12_Witness ==
    /\ pc = "loop"
    /\ HeaderComplete
    /\ line = 3
    /\ Opens(1) /\ ~Kept(2)
    /\ CellAt(2, Name) # <<>>
    /\ results = <<>>
    /\ currentRow # <<>>
    /\ currentRow[1].product.name = <<"A">>
    /\ Len(currentRow[1].variants) = 1
    /\ rowErrors = <<ArityMessage(1), LengthMessage(2)>>

\* ------------------------------------------------------------ C13

\* The loop is about to visit a non-skipped row with an empty name cell while
\* no item is open.
AtOrphanRow ==
    /\ pc = "loop"
    /\ rows # <<>>
    /\ Len(Head(rows)) = Len(headerRow)
    /\ Field(mapRowToObject(headerRow, Head(rows)), Name) = <<>>
    /\ currentRow = <<>>

\* Data row j is such a row: not skipped, its name cell empty, no item opened
\* before it.
Orphan(j) == Kept(j) /\ ~Opens(j) /\ ItemIndex(j) = 0

\* The text without its orphan rows.
TextWithoutOrphans ==
    LET kept == Ascending({j \in DOMAIN DataRows : ~Orphan(j)})
    IN <<Header>> \o [k \in DOMAIN kept |-> DataRows[kept[k]]]

\* C13: visiting a non-skipped row with an empty name cell while no item is
\* open changes nothing but the line counter (no item, no variant, no error,
\* still no item open), and the call's results and its number of errors are
\* those of the text without such rows, whose lines still count.
C13_OrphanRowDropped ==
    /\ [][AtOrphanRow =>
             /\ results' = results
             /\ currentRow' = <<>>
             /\ rowErrors' = rowErrors
             /\ line' = line + 1
             /\ errors' = errors
             /\ promise' = promise]_vars
    /\ []((Delivered /\ HeaderComplete) =>
             /\ promise.state = "resolved"
             /\ \A j \in DOMAIN DataRows :
                   Orphan(j) => /\ ArityMessage(j) \notin Range(promise.errors)
                                /\ LengthMessage(j) \notin Range(promise.errors)
             /\ LET other == processRawRecords(TextWithoutOrphans)
                IN /\ promise.results = other.results
                   /\ Len(promise.errors) = Len(other.errors))

\* A variant row with two option values comes first and is dropped; the item
\* row after it is reported on line 3 and its item has its own variant only.
C13_Witness ==
    /\ Delivered /\ HeaderComplete
    /\ Len(DataRows) = 3
    /\ Orphan(1)
    /\ Len(parseStringArray(CellAt(1, OptionValues))) = 2
    /\ Opens(2)
    /\ Kept(3) /\ ~Opens(3)
    /\ promise.state = "resolved"
    /\ promise.errors = <<ArityMessage(2)>>
    /\ Len(promise.results) = 1
    /\ Len(promise.results[1].variants) = 2

\* ------------------------------------------------------------ C14

\* The loop is about to close the open item: it is at a non-skipped row with
\* a non-empty name cell, or at the end of the rows.
Closing ==
    /\ pc = "loop"
    /\ currentRow # <<>>
    /\ \/ rows = <<>>
       \/ /\ Len(Head(rows)) = Len(headerRow)
          /\ Field(mapRowToObject(headerRow, Head(rows)), Name) # <<>>

\* No option group of the item has values yet.
Unpopulated(item) ==
    \A i \in DOMAIN item.product.optionGroups : item.product.optionGroups[i].values = <<>>

\* The rows the loop has visited.
Visited == line - 1

\* C14: the results change only when the open item is closed, by a
\* non-skipped row with a non-empty name cell or by the end of the rows, and
\* then by appending that item, with every variant attached to it so far and
\* its option groups' values assigned; the entries already in the results
\* stay as they are; the open item has no values assigned before that; and
\* the results hold one entry per item that was opened and closed.
C14_FinalizedOnce ==
    /\ [][IF Closing
          THEN /\ results' = Append(results, populateOptionGroupValues(currentRow[1]))
               /\ results'[Len(results')].variants = currentRow[1].variants
               /\ (pc' = "loop" => currentRow' # <<>> /\ Len(currentRow'[1].variants) = 1)
          ELSE results' = results]_vars
    /\ [](pc = "loop" =>
            /\ currentRow # <<>> => Unpopulated(currentRow[1])
            /\ Len(results) + (IF currentRow # <<>> THEN 1 ELSE 0) = ItemIndex(Visited))
    /\ []((Delivered /\ HeaderComplete) =>
            /\ promise.state = "resolved"
            /\ promise.results = results
            /\ Len(results) = ItemIndex(Len(DataRows)))

\* Item A was closed by item B's row after its second variant was attached,
\* item B by the end of the rows.
C14_Witness ==
    /\ Delivered /\ HeaderComplete
    /\ Len(DataRows) = 3
    /\ Opens(1) /\ Kept(2) /\ ~Opens(2) /\ Opens(3)
    /\ Len(results) = 2
    /\ Len(results[1].variants) = 2
    /\ results[1].product.optionGroups[1].values # <<>>
    /\ Len(results[2].variants) = 1
    /\ results[2].product.optionGroups[1].values # <<>>

\* ------------------------------------------------------------ C15

\* The variants of the results, item after item.
RECURSIVE AllVariants(_)
AllVariants(res) ==
    IF res = <<>> THEN <<>> ELSE Head(res).variants \o AllVariants(Tail(res))

\* The variant and the record of data row j.
RecordOf(j) == mapRowToObject(Header, DataRows[j])
VariantOf(j) == parseVariantFromRecord(RecordOf(j))

\* C15: the items are those of the opening rows in the order of these rows,
\* each item's first variant is its opening row's, and the variants of the
\* results, item after item, are those of the non-skipped rows from the first
\* opening row on, in the order of the rows.
C15_RowOrder ==
    (Delivered /\ HeaderComplete) =>
        LET openers == Ascending({j \in DOMAIN DataRows : Opens(j)})
            attached == Ascending({j \in DOMAIN DataRows : Kept(j) /\ ItemIndex(j) > 0})
        IN /\ promise.state = "resolved"
           /\ Len(promise.results) = Len(openers)
           /\ \A n \in DOMAIN openers :
                 LET item == promise.results[n]
                     r == RecordOf(openers[n])
                 IN /\ item.product.name = parseString(Field(r, Name))
                    /\ item.product.slug = parseProductFromRecord(r).slug
                    /\ item.variants # <<>>
                    /\ item.variants[1] = VariantOf(openers[n])
           /\ AllVariants(promise.results)
                 = [k \in DOMAIN attached |-> VariantOf(attached[k])]

\* Item B before item A, and A's own variant (sku 1) before the variant of
\* the row after it (sku 4).
C15_Witness ==
    /\ Delivered /\ HeaderComplete
    /\ promise.state = "resolved"
    /\ Len(promise.results) = 2
    /\ promise.results[1].product.name = <<"B">>
    /\ promise.results[2].product.name = <<"A">>
    /\ Len(promise.results[2].variants) = 2
    /\ promise.results[2].variants[1].sku = <<"1">>
    /\ promise.results[2].variants[2].sku = <<"4">>

\* ------------------------------------------------------------ C16

\* The items there are: during the loop the results and the open item, in
\* the outcome the results.
Items == IF pc = "loop" THEN results \o currentRow ELSE promise.results

\* The data rows processed so far.
Processed == IF pc = "loop" THEN Visited ELSE Len(DataRows)

\* The rows processed so far that a variant was parsed from: not skipped, and
\* at or after an opening row.
Attached == {j \in 1..Processed : Kept(j) /\ ItemIndex(j) > 0}

\* C16: during the loop and in the outcome, every item has a variant, the
\* variant of each row is in the item opened by the nearest opening row at or
\* before it (at the row's place among that item's rows), and there are as
\* many variants in all as rows that one was parsed from.
C16_VariantsOwned ==
    (pc = "loop" \/ (Delivered /\ HeaderComplete)) =>
        /\ \A i \in DOMAIN Items : Items[i].variants # <<>>
        /\ \A j \in Attached :
              /\ ItemIndex(j) <= Len(Items)
              /\ LET item == Items[ItemIndex(j)]
                 IN /\ item.product.name = parseString(CellAt(Opener(j), Name))
                    /\ item.variants[1] = VariantOf(Opener(j))
                    /\ VariantIndex(j) <= Len(item.variants)
                    /\ item.variants[VariantIndex(j)] = VariantOf(j)
        /\ Len(AllVariants(Items)) = Cardinality(Attached)

\* In the loop, after item A with two variants was closed by the row that
\* opened item B.
C16_Witness ==
    /\ pc = "loop"
    /\ Len(results) = 1
    /\ results[1].product.name = <<"A">>
    /\ Len(results[1].variants) = 2
    /\ currentRow # <<>>
    /\ currentRow[1].product.name = <<"B">>
    /\ Len(currentRow[1].variants) = 1

\* ------------------------------------------------------------ C17

\* The error data row j is reported with, if any: its length message when it
\* is ragged, else the arity message when an item is open after it whose
\* option group count differs from the row's option value count.
ExpectedError(j) ==
    IF ~Kept(j) THEN <<LengthMessage(j)>>
    ELSE IF /\ ItemIndex(j) > 0
            /\ Len(parseStringArray(CellAt(j, OptionValues)))
                  # Len(parseStringArray(CellAt(Opener(j), OptionGroups)))
         THEN <<ArityMessage(j)>>
         ELSE <<>>

\* The errors of data rows 1..n, in the order of the rows.
RECURSIVE ExpectedErrors(_)
ExpectedErrors(n) ==
    IF n = 0 THEN <<>> ELSE ExpectedErrors(n - 1) \o ExpectedError(n)

\* The line a row's message names.
LineOf(e) ==
    CHOOSE n \in 2..(Len(DataRows) + 1) :
        e = LengthMessage(n - 1) \/ e = ArityMessage(n - 1)

\* C17: during the loop and in the outcome, the errors are the messages of
\* the rows processed so far in the order of the rows, at most one per row
\* (the length message or the arity message), each naming line j + 1 for
\* data row j whatever happened to the rows before it; the lines of
\* successive messages increase strictly.
C17_ErrorsInRowOrder ==
    (pc = "loop" \/ (Delivered /\ HeaderComplete)) =>
        LET errs == IF pc = "loop" THEN rowErrors ELSE promise.errors
        IN /\ errs = ExpectedErrors(Processed)
           /\ \A k \in DOMAIN errs :
                 \E j \in 1..Processed : errs[k] = LengthMessage(j) \/ errs[k] = ArityMessage(j)
           /\ \A k \in 1..(Len(errs) - 1) : LineOf(errs[k]) < LineOf(errs[k + 1])
           /\ \A j \in 1..Processed :
                 ~(LengthMessage(j) \in Range(errs) /\ ArityMessage(j) \in Range(errs))

\* A string of a dropped row (line 2, no message), a short row (line 3) and
\* an item row with the arity error (line 4).
C17_Witness ==
    /\ input.kind = "string"
    /\ Delivered /\ HeaderComplete
    /\ Len(DataRows) = 3
    /\ Orphan(1) /\ ~Kept(2) /\ Opens(3)
    /\ promise.state = "resolved"
    /\ promise.errors = <<LengthMessage(2), ArityMessage(3)>>
    /\ LineOf(promise.errors[1]) = 3
    /\ LineOf(promise.errors[2]) = 4

\* ------------------------------------------------------------ C18

\* The names of the item's option groups, in order.
GroupNames(item) ==
    [i \in DOMAIN item.product.optionGroups |-> item.product.optionGroups[i].name]

\* The opening rows among the rows processed so far, in order.
OpeningRows == Ascending({j \in 1..Processed : Opens(j)})

\* C18: during the loop and in the outcome, the option groups of every item
\* are, by count and by name, those of the optionGroups cell of the row that
\* opened it; a step that attaches a variant or skips a row leaves the open
\* item's groups as they are, and the step that closes the item changes
\* nothing of it but the groups' values.
C18_GroupsFixed ==
    /\ []((pc = "loop" \/ (Delivered /\ HeaderComplete)) =>
             /\ Len(Items) = Len(OpeningRows)
             /\ \A n \in DOMAIN Items :
                   GroupNames(Items[n])
                      = parseStringArray(CellAt(OpeningRows[n], OptionGroups)))
    /\ [][(pc = "loop" /\ currentRow # <<>>) =>
             IF Closing
             THEN LET closed == results'[Len(results')]
                      open == currentRow[1]
                  IN /\ GroupNames(closed) = GroupNames(open)
                     /\ closed.variants = open.variants
                     /\ [closed.product EXCEPT !.optionGroups = open.product.optionGroups]
                           = open.product
             ELSE /\ currentRow' # <<>>
                  /\ currentRow'[1].product = currentRow[1].product]_vars

\* Item B has the one group of its own row, g, though the row attached to it
\* has two option values.
C18_Witness ==
    /\ Delivered /\ HeaderComplete
    /\ promise.state = "resolved"
    /\ Len(promise.results) = 1
    /\ promise.results[1].product.name = <<"B">>
    /\ GroupNames(promise.results[1]) = <<<<"g">>>>
    /\ Len(promise.results[1].variants) = 2
    /\ Len(promise.results[1].variants[2].optionValues) = 2
    /\ promise.results[1].product.optionGroups[1].values = <<<<"S">>, <<"M">>>>

\* ------------------------------------------------------------ C19

\* The place of pc in the order of a call.
Rank(p) == CASE p = "start" -> 0 [] p = "waiting" -> 1 [] p = "loop" -> 2 [] p = "done" -> 3

\* processRawRecords has not been entered.
Untouched ==
    /\ headerRow = <<>> /\ rows = <<>> /\ line = 0
    /\ results = <<>> /\ rowErrors = <<>> /\ currentRow = <<>>

\* C19: for a stream, until the decoder's 'end' the rows are only appended
\* to records, in the order of the text, and nothing is grouped and nothing
\* resolved; processRawRecords is entered once, by 'end', with every row of
\* the text in records; a settled promise is not settled again; and a
\* resolved promise holds what processRawRecords gives for the whole text.
C19_BufferedUntilEnd ==
    /\ [](input.kind = "stream" =>
            /\ Len(records) + Len(parserBuf) = delivered
            /\ records \o parserBuf = SubSeq(input.text, 1, delivered)
            /\ Rank(pc) <= 1 => /\ Untouched
                                /\ parserState # "ended"
                                /\ promise.state # "resolved"
            /\ Rank(pc) >= 2 => /\ parserState = "ended"
                                /\ records = input.text
                                /\ ~input.bad
            /\ promise.state = "resolved" =>
                  /\ pc = "done"
                  /\ LET whole == processRawRecords(input.text)
                     IN /\ promise.results = whole.results
                        /\ promise.errors = whole.errors)
    /\ [][input.kind = "stream" =>
            /\ Rank(pc') >= Rank(pc)
            /\ Rank(pc) >= 2 => records' = records /\ parserState' = parserState
            /\ promise.state # "pending" => promise' = promise
            /\ (Rank(pc) <= 1 /\ Rank(pc') >= 2) =>
                  parserState = "open" /\ parserState' = "ended"
            /\ records' # records =>
                  \E n \in 1..Len(parserBuf) : records' = records \o SubSeq(parserBuf, 1, n)]_vars

\* A stream of four rows, all of them read into records before 'end',
\* resolved with two items and no error.
C19_Witness ==
    /\ input.kind = "stream"
    /\ parserState = "ended"
    /\ Len(input.text) = 4
    /\ records = input.text
    /\ promise.state = "resolved"
    /\ Len(promise.results) = 2
    /\ promise.errors = <<>>

\* ------------------------------------------------------------ C20

\* C20 as claimed: for a text of no row at all, once the decoder has handed
\* over its (empty) records, the promise is resolved with empty results and
\* no exception has left the handler.
C20_EmptyInputSettles ==
    (input.text = <<>> /\ ~input.bad /\ pc = "done") =>
        /\ ~uncaught
        /\ promise.state = "resolved"
        /\ promise.results = <<>>

====
